---- MODULE Spec2Model ----
(***************************************************************************)
(* Model of the DICOM anonymizer (dicom_anonymizer/application):           *)
(*   - remove_info, the per-element redaction rule engine;                 *)
(*   - anonymize, the per-file writer (private-tag strip, rule walk,       *)
(*     tag creation, save);                                                *)
(*   - create_dcm_df, the case aggregator, and the "Run" loop of           *)
(*     streamlit_app that feeds every file of every case to anonymize;     *)
(*   - validate_upload and update_data_editor of ui_utils/ui_logic, and    *)
(*     the upload handler of streamlit_app that calls them;                *)
(*   - consolidate_tags, the per-row override map;                         *)
(* and of generate_anonymized_names of dicom_anonymizer_2.                 *)
(*                                                                         *)
(* Seven specifications share the variables:                               *)
(*   SpecRule    one call of remove_info on one element, all arguments     *)
(*               free;                                                     *)
(*   SpecAnon    a batch of files handed to anonymize one after the other; *)
(*   SpecRun     fetch (create_dcm_df) followed by the Run loop;           *)
(*   SpecKey     the index PK built for two rows of the case table;        *)
(*   SpecUpload  validate_upload and update_data_editor on a case table    *)
(*               and an uploaded table, called directly or by the page;    *)
(*   SpecConsolidate  one call of consolidate_tags on one row;             *)
(*   SpecRename  one call of generate_anonymized_names on one table.       *)
(*                                                                         *)
(* anonymize_dicom.py holds two spliced repetitions (lines 61-62 again at  *)
(* 63-64, lines 128-129 again at 130-131, lines 133-139 again at 140-146); *)
(* the model reads each repeated passage once.                             *)
(***************************************************************************)
EXTENDS Integers, Sequences, FiniteSets, TLC

VARIABLES
    \* ---- SpecRule: one call of remove_info
    rule_pc,        \* "idle" | "ready" | "returned"
    rule_args,      \* [va_type, tags, update, tags_2_spare] as passed by the caller
    orig_element,   \* the element as it was before the call
    data_element,   \* the element object, mutated in place by remove_info
    \* ---- SpecAnon: a batch of files handed to anonymize
    anon_pc,        \* "idle" | "running" | "done" | "raised"
    batch,          \* the source files, in the order they are handed over
    policy,         \* [tags, update, tags_2_spare, tags_2_create]
    anon_i,         \* index of the next file of the batch
    saved,          \* per file of the batch: NotWritten or the record saved for it
    \* ---- SpecRun: "Fetch files", then "Run"
    run_pc,         \* "idle" | "start" | "fetch raised" | "fetched" | "running" | "done" | "raised"
    cwd,            \* the working directory of the process
    folder,         \* st.session_state['folder'], the root the operator entered
    series_mode,    \* st.session_state['series_mode']
    files,          \* the files under the root, in the order rglob yields them
    dcm_info,       \* st.session_state['dcm_info']: the case table
    anon_dcm_df,    \* the rows the Run loop iterates
    run_r,          \* index of the current row of anon_dcm_df
    run_f,          \* index of the next file of the current row
    calls,          \* the anonymize calls that returned: [src, dst, row]
    reads,          \* the paths create_dcm_df handed to dcmread, in order
    \* ---- SpecKey: the index PK of two rows
    key_pc,         \* "idle" | "ready" | "built"
    key_ids,        \* the identity fields, in order
    key_rows,       \* the identity values of the two rows
    keys,           \* the PK of each of the two rows
    \* ---- SpecUpload: an uploaded table against the case table
    up_pc,          \* "idle" | "ready" | "validated" | "validate raised" | "merged"
                    \* | "merged again" | "merge raised" | "page raised"
                    \* | "page error" | "page merge failed" | "page merged"
    up_orig,        \* the case table as it was before the calls
    up_edit_df,     \* the case table object, written in place by update_data_editor
    up_upload_df,   \* the uploaded table: [raw_cols, update_cols, rows]
    up_args,        \* [update_tags, upload_df_id]
    up_message,     \* what validate_upload returned
    up_first,       \* the case table as the first update_data_editor call left it
    \* ---- SpecConsolidate: one call of consolidate_tags
    cons_pc,        \* "idle" | "ready" | "returned" | "raised"
    cons_row,       \* the row: its Update_ columns and their values
    cons_tags,      \* update_tags, the updatable fields
    cons_update,    \* the mapping consolidate_tags returned
    \* ---- SpecRename: one call of generate_anonymized_names
    ren_pc,         \* "idle" | "ready" | "named"
    ren_df,         \* the metadata table, one row per file
    ren_names       \* the column Anonymized_PatientName

ruleVars == <<rule_pc, rule_args, orig_element, data_element>>
anonVars == <<anon_pc, batch, policy, anon_i, saved>>
runVars ==
    <<run_pc, cwd, folder, series_mode, files, dcm_info, anon_dcm_df, run_r, run_f, calls,
      reads>>
keyVars == <<key_pc, key_ids, key_rows, keys>>
uploadVars == <<up_pc, up_orig, up_edit_df, up_upload_df, up_args, up_message, up_first>>
consVars == <<cons_pc, cons_row, cons_tags, cons_update>>
renameVars == <<ren_pc, ren_df, ren_names>>
vars == <<ruleVars, anonVars, runVars, keyVars, uploadVars, consVars, renameVars>>

-----------------------------------------------------------------------------
(* Python values *)

\* Python's None, and a dict wrapped so that it can be compared with None.
None == [kind |-> "None"]
Dict(f) == [kind |-> "dict", map |-> f]

\* A str read from a file, its characters kept so that it can be joined and
\* compared with None.
Str(s) == [kind |-> "str", s |-> s]

\* '' as the cell of a table.
Blank == Str(<<>>)

Range(seq) == {seq[i] : i \in DOMAIN seq}

\* An int, and the characters of decimal digits.
PyInt(n) == [kind |-> "int", n |-> n]
DigitChars == <<"0", "1", "2", "3", "4", "5", "6", "7", "8", "9">>
IsDigits(s) == s # <<>> /\ \A i \in DOMAIN s : s[i] \in Range(DigitChars)

\* int(s) for a string of decimal digits.
RECURSIVE int_(_)
int_(s) ==
    IF s = <<>> THEN 0
    ELSE 10 * int_(SubSeq(s, 1, Len(s) - 1))
            + ((CHOOSE d \in DOMAIN DigitChars : DigitChars[d] = s[Len(s)]) - 1)

\* str(n) for a non-negative int.
RECURSIVE str_int(_)
str_int(n) ==
    IF n < 10 THEN <<DigitChars[n + 1]>>
    ELSE str_int(n \div 10) \o <<DigitChars[(n % 10) + 1]>>

\* str.strip() on a string held as a sequence of characters.
RECURSIVE LStrip(_)
LStrip(s) == IF s # <<>> /\ Head(s) = " " THEN LStrip(Tail(s)) ELSE s

RECURSIVE RStrip(_)
RStrip(s) == IF s # <<>> /\ s[Len(s)] = " " THEN RStrip(SubSeq(s, 1, Len(s) - 1)) ELSE s

Strip(s) == RStrip(LStrip(s))

-----------------------------------------------------------------------------
(* remove_info *)

\* The sentinel written by the VR rule, and the empty value.
Sentinel == "Anonymized"
Empty == ""

\* The VR codes remove_info redacts: the list bound to va_type on entry.
VA_TYPE == {<<"P", "N">>, <<"L", "O">>, <<"S", "H">>, <<"A", "E">>, <<"D", "T">>, <<"D", "A">>}

\* "Delete by value group": data_element.value = "Anonymized", and "" when the
\* assignment raises (the element does not accept the string).
VRStep_NoFallback(de, va_type) ==
    IF Strip(de.VR) \in {Strip(v) : v \in va_type}
    THEN [de EXCEPT !.value = IF de.rejects THEN de.value ELSE Sentinel]
    ELSE de

VRStep(de, va_type) ==
    IF Strip(de.VR) \in {Strip(v) : v \in va_type}
    THEN [de EXCEPT !.value = IF de.rejects THEN Empty ELSE Sentinel]
    ELSE de

\* "Delete by tag".
ClearStep_Skipped(de, tags) == de

ClearStep(de, tags) ==
    IF de.tag \in tags THEN [de EXCEPT !.value = Empty] ELSE de

\* The update dictionary, when given, has the last word.
OverrideStep_IfNotCleared(de, update) ==
    IF update # None /\ de.tag \in DOMAIN update.map /\ de.value # Empty
    THEN [de EXCEPT !.value = update.map[de.tag]]
    ELSE de

OverrideStep(de, update) ==
    IF update # None /\ de.tag \in DOMAIN update.map
    THEN [de EXCEPT !.value = update.map[de.tag]]
    ELSE de

\* The rules applied to an element that is not spared.
ApplyRules(de, tags, update) ==
    OverrideStep(ClearStep(VRStep(de, VA_TYPE), tags), update)

\* remove_info(dataset, data_element, va_type, tags, update, tags_2_spare):
\* the element after the call.  The va_type argument is rebound to VA_TYPE on
\* entry, so the value passed by the caller is never read.
remove_info(de, va_type, tags, update, tags_2_spare) ==
    IF de.tag \in tags_2_spare THEN de ELSE ApplyRules(de, tags, update)

-----------------------------------------------------------------------------
(* SpecRule: inputs of one remove_info call *)

RuleTags == {"PatientName", "PatientID", "AccessionNumber"}

RuleVRs == {<<"P", "N">>, <<"P", "N", " ">>, <<"D", "A">>, <<"C", "S">>, <<"U", "S">>}

RuleValues == {"John", Empty}

RuleElements ==
    [tag : RuleTags, VR : RuleVRs, value : RuleValues, rejects : BOOLEAN]

\* Lists of VR codes a caller may pass as va_type (None, [], ["CS"], ["PN "]).
RuleVaTypes == {None, Dict({}), Dict({<<"C", "S">>}), Dict({<<"P", "N", " ">>})}

RuleUpdates ==
    {None} \cup {Dict([t \in D |-> "NEW"]) : D \in SUBSET RuleTags}

RuleArgs ==
    [va_type : RuleVaTypes, tags : SUBSET RuleTags,
     update : RuleUpdates, tags_2_spare : SUBSET RuleTags]

RuleIdle ==
    /\ rule_pc = "idle"
    /\ rule_args = None
    /\ orig_element = None
    /\ data_element = None

AnonIdle ==
    /\ anon_pc = "idle"
    /\ batch = <<>>
    /\ policy = None
    /\ anon_i = 0
    /\ saved = <<>>

RunIdle ==
    /\ run_pc = "idle"
    /\ cwd = <<>>
    /\ folder = <<>>
    /\ series_mode = FALSE
    /\ files = <<>>
    /\ dcm_info = <<>>
    /\ anon_dcm_df = <<>>
    /\ run_r = 0
    /\ run_f = 0
    /\ calls = <<>>
    /\ reads = <<>>

KeyIdle ==
    /\ key_pc = "idle"
    /\ key_ids = <<>>
    /\ key_rows = <<>>
    /\ keys = <<>>

UploadIdle ==
    /\ up_pc = "idle"
    /\ up_orig = <<>>
    /\ up_edit_df = <<>>
    /\ up_upload_df = None
    /\ up_args = None
    /\ up_message = None
    /\ up_first = <<>>

ConsIdle ==
    /\ cons_pc = "idle"
    /\ cons_row = None
    /\ cons_tags = <<>>
    /\ cons_update = None

RenameIdle ==
    /\ ren_pc = "idle"
    /\ ren_df = <<>>
    /\ ren_names = <<>>

InitRule ==
    /\ rule_pc = "ready"
    /\ rule_args \in RuleArgs
    /\ orig_element \in RuleElements
    /\ data_element = orig_element
    /\ AnonIdle
    /\ RunIdle
    /\ KeyIdle
    /\ UploadIdle
    /\ ConsIdle
    /\ RenameIdle

CallRemoveInfo ==
    /\ rule_pc = "ready"
    /\ data_element' = remove_info(data_element, rule_args.va_type, rule_args.tags,
                                   rule_args.update, rule_args.tags_2_spare)
    /\ rule_pc' = "returned"
    /\ UNCHANGED <<rule_args, orig_element, anonVars, runVars, keyVars, uploadVars, consVars,
                   renameVars>>

NextRule == CallRemoveInfo

SpecRule == InitRule /\ [][NextRule]_vars

-----------------------------------------------------------------------------
(* anonymize: records *)

\* A record (pydicom Dataset) is a function from the tags it holds to elements
\* [tag, VR, value, rejects, items]; the items of a sequence element (VR SQ) are
\* records in turn, every other element has no items.

SQ == <<"S", "Q">>

\* The data dictionary for the keywords the model uses: the VR a keyword's
\* element has.  A private tag (odd group number) has no keyword.
PrivateTag == "(0029,0010)"

IsPrivate(tag) == tag = PrivateTag

DictionaryVR(tag) ==
    CASE tag = "PatientName" -> <<"P", "N">>
      [] tag = "PatientID" -> <<"L", "O">>
      [] tag = "StudyDate" -> <<"D", "A">>
      [] tag = "BodyPartExamined" -> <<"C", "S">>
      [] tag = "Modality" -> <<"C", "S">>
      [] tag = "OtherPatientIDsSequence" -> SQ
      [] tag = PrivateTag -> <<"L", "O">>

Element(tag, value) ==
    [tag |-> tag, VR |-> DictionaryVR(tag), value |-> value,
     rejects |-> FALSE, items |-> <<>>]

SequenceElement(tag, items) ==
    [tag |-> tag, VR |-> SQ, value |-> Empty, rejects |-> FALSE, items |-> items]

\* Dataset.remove_private_tags(): deletes every private element, at every level.
remove_private_tags_TopLevelOnly(ds) ==
    [t \in {u \in DOMAIN ds : ~IsPrivate(u)} |-> ds[t]]

RECURSIVE remove_private_tags(_)
remove_private_tags(ds) ==
    [t \in {u \in DOMAIN ds : ~IsPrivate(u)} |->
        [ds[t] EXCEPT !.items =
            [k \in DOMAIN ds[t].items |-> remove_private_tags(ds[t].items[k])]]]

\* Dataset.walk(callback) with the callback of anonymize: remove_info on every
\* element in turn, then, for a sequence element that is still there, on every
\* element of each of its items.
RECURSIVE walk(_, _, _, _)
walk(ds, tags, update, tags_2_spare) ==
    [t \in DOMAIN ds |->
        LET de == remove_info(ds[t], Dict({}), tags, update, tags_2_spare)
        IN  IF de.VR = SQ
            THEN [de EXCEPT !.items =
                    [k \in DOMAIN de.items |-> walk(de.items[k], tags, update, tags_2_spare)]]
            ELSE de]

\* "Create new tags": setattr(f, dcm_tag, value) for every entry of
\* tags_2_create.  Dataset.__setattr__ with a keyword adds the element when the
\* record lacks it and assigns the value of the element when the record has it.
create_tags(ds, tags_2_create) ==
    [t \in DOMAIN ds \cup DOMAIN tags_2_create |->
        IF t \notin DOMAIN tags_2_create THEN ds[t]
        ELSE IF t \in DOMAIN ds THEN [ds[t] EXCEPT !.value = tags_2_create[t]]
        ELSE Element(t, tags_2_create[t])]

\* The tags anonymize clears when the caller passes tags = None.
DefaultTags ==
    {"PatientName", "PatientID", "PatientBirthDate", "PatientSex", "PatientAddress",
     "PatientTelephoneNumbers", "AccessionNumber", "StudyID", "InstitutionName",
     "InstitutionAddress", "ReferringPhysicianName", "PhysiciansOfRecord",
     "PerformingPhysicianName", "OperatorsName", "MedicalRecordLocator",
     "AdditionalPatientHistory", "PatientComments", "RequestingPhysician",
     "InstitutionalDepartmentName"}

\* The body of the try block once the file has been read: what save_as writes.
redact(ds, tags, update, tags_2_spare, tags_2_create) ==
    create_tags(
        walk(remove_private_tags(ds),
             IF tags = None THEN DefaultTags ELSE tags.map, update, tags_2_spare),
        tags_2_create)

\* A source file: valid (pydicom.dcmread returns its record) or not
\* (pydicom.dcmread raises InvalidDicomError).
NotWritten == [kind |-> "NotWritten"]
Saved(ds) == [kind |-> "saved", ds |-> ds]

\* The except clause of anonymize, entered when dcmread raises
\* InvalidDicomError: it formats the local f, which dcmread alone assigns, so
\* with f unbound the handler itself raises UnboundLocalError.
HandlerRaises(f_bound) == ~f_bound

\* anonymize(file_dir, output_dir, tags, update, tags_2_spare, tags_2_create):
\* whether the call raises, and what it wrote to output_dir.
anonymize(file, tags, update, tags_2_spare, tags_2_create) ==
    IF file.valid
    THEN [raised |-> FALSE, out |-> Saved(redact(file.ds, tags, update, tags_2_spare, tags_2_create))]
    ELSE [raised |-> HandlerRaises(FALSE), out |-> NotWritten]

-----------------------------------------------------------------------------
(* SpecAnon: a batch of files handed to anonymize under one policy *)

\* Longest batch.
MaxBatch == 2

BaseElements ==
    {Element("PatientName", "John"), Element("PatientID", "12345"),
     Element("StudyDate", "20210101"), Element("Modality", "OT")}

NestedItem(withPrivate) ==
    LET els == {Element("PatientID", "777")}
                 \cup (IF withPrivate THEN {Element(PrivateTag, "vendor")} ELSE {})
    IN  [t \in {e.tag : e \in els} |-> CHOOSE e \in els : e.tag = t]

\* The records the source files hold: BodyPartExamined present or absent, a
\* private element at the top level or not, a sequence whose item holds a
\* private element or no sequence.
SourceRecord(hasBody, hasPrivate, hasSequence) ==
    LET els == BaseElements
                 \cup (IF hasBody THEN {Element("BodyPartExamined", "KNEE")} ELSE {})
                 \cup (IF hasPrivate THEN {Element(PrivateTag, "vendor")} ELSE {})
                 \cup (IF hasSequence
                       THEN {SequenceElement("OtherPatientIDsSequence", <<NestedItem(TRUE)>>)}
                       ELSE {})
    IN  [t \in {e.tag : e \in els} |-> CHOOSE e \in els : e.tag = t]

SourceFiles ==
    {[valid |-> TRUE, ds |-> SourceRecord(b, p, q)] : b, p, q \in BOOLEAN}
        \cup {[valid |-> FALSE, ds |-> <<>>]}

Batches == UNION {[1..n -> SourceFiles] : n \in 1..MaxBatch}

Policies ==
    [tags : {None, Dict({"StudyDate"})},
     update : {None, Dict([t \in {"PatientID"} |-> "NEW"]),
               Dict([t \in {"BodyPartExamined"} |-> "NEW"]),
               Dict([t \in {PrivateTag} |-> "NEW"])},
     tags_2_spare : {{}, {"PatientID"}, {"BodyPartExamined"}, {PrivateTag}},
     tags_2_create : {<<>>, [t \in {"BodyPartExamined"} |-> "Head"]}]

InitAnon ==
    /\ RuleIdle
    /\ RunIdle
    /\ KeyIdle
    /\ UploadIdle
    /\ ConsIdle
    /\ RenameIdle
    /\ anon_pc = "running"
    /\ batch \in Batches
    /\ policy \in Policies
    /\ anon_i = 1
    /\ saved = [k \in DOMAIN batch |-> NotWritten]

AnonymizeCall ==
    anonymize(batch[anon_i], policy.tags, policy.update,
              policy.tags_2_spare, policy.tags_2_create)

\* One turn of the loop over the files: anonymize returns, the loop goes on.
AnonymizeReturns ==
    /\ anon_pc = "running"
    /\ anon_i <= Len(batch)
    /\ ~AnonymizeCall.raised
    /\ saved' = [saved EXCEPT ![anon_i] = AnonymizeCall.out]
    /\ anon_i' = anon_i + 1
    /\ UNCHANGED <<anon_pc, batch, policy, ruleVars, runVars, keyVars, uploadVars, consVars,
                   renameVars>>

\* anonymize raises: the exception leaves the loop, no later file is handed over.
AnonymizeRaises ==
    /\ anon_pc = "running"
    /\ anon_i <= Len(batch)
    /\ AnonymizeCall.raised
    /\ anon_pc' = "raised"
    /\ UNCHANGED <<batch, policy, anon_i, saved, ruleVars, runVars, keyVars, uploadVars, consVars,
                   renameVars>>

BatchDone ==
    /\ anon_pc = "running"
    /\ anon_i > Len(batch)
    /\ anon_pc' = "done"
    /\ UNCHANGED <<batch, policy, anon_i, saved, ruleVars, runVars, keyVars, uploadVars, consVars,
                   renameVars>>

NextAnon == AnonymizeReturns \/ AnonymizeRaises \/ BatchDone

SpecAnon == InitAnon /\ [][NextAnon]_vars

-----------------------------------------------------------------------------
(* Properties of remove_info (SpecRule) *)

Returned == rule_pc = "returned"

Spared == orig_element.tag \in rule_args.tags_2_spare

Overridden ==
    rule_args.update # None /\ orig_element.tag \in DOMAIN rule_args.update.map

Cleared == orig_element.tag \in rule_args.tags

Wildcard == Strip(orig_element.VR) \in VA_TYPE

\* C2: an element that is not spared and whose tag is a key of the update map
\* holds the mapped value after remove_info, whatever its VR and whether or
\* not its tag is in the clear list.  With PatientName and PatientID cleared,
\* AccessionNumber spared and PatientID mapped to "NEW": PatientName is empty,
\* PatientID is "NEW", AccessionNumber is as it was.
C2_Scenario ==
    /\ rule_args.tags = {"PatientName", "PatientID"}
    /\ rule_args.tags_2_spare = {"AccessionNumber"}
    /\ rule_args.update = Dict([t \in {"PatientID"} |-> "NEW"])

C2_OverrideWins ==
    Returned =>
        /\ (~Spared /\ Overridden) =>
                data_element.value = rule_args.update.map[orig_element.tag]
        /\ C2_Scenario =>
                data_element.value =
                    CASE orig_element.tag = "PatientName" -> Empty
                      [] orig_element.tag = "PatientID" -> "NEW"
                      [] orig_element.tag = "AccessionNumber" -> orig_element.value

C2_Witness ==
    /\ Returned /\ ~Spared /\ Overridden /\ Cleared /\ Wildcard
    /\ orig_element.value = "John"
    /\ data_element.value = "NEW"

\* C3: an element whose tag is in the clear list, is not spared and is no key
\* of the update map is empty after remove_info, also when the VR rule had
\* written the sentinel into it first.
C3_ClearEmpties ==
    (Returned /\ Cleared /\ ~Spared /\ ~Overridden) => data_element.value = Empty

C3_Witness ==
    /\ Returned /\ Cleared /\ ~Spared /\ ~Overridden
    /\ Wildcard /\ ~orig_element.rejects
    /\ orig_element.value = "John"
    /\ data_element.value = Empty

-----------------------------------------------------------------------------
(* Properties of anonymize (SpecAnon) *)

WasSaved(k) == saved[k].kind = "saved"

\* The values of src that out must still hold: every spared element the two
\* records share, at every level.
RECURSIVE SparedKept(_, _, _)
SparedKept(src, out, tags_2_spare) ==
    \A t \in DOMAIN src \cap DOMAIN out :
        /\ t \in tags_2_spare => out[t].value = src[t].value
        /\ \A k \in DOMAIN src[t].items \cap DOMAIN out[t].items :
                SparedKept(src[t].items[k], out[t].items[k], tags_2_spare)

\* C1: remove_info leaves a spared element's value as it was, whatever its VR
\* and whether or not its tag is also cleared or overridden; and a spared tag
\* in the file anonymize wrote has the value it had in the source file.
C1_SparedUntouched ==
    /\ (Returned /\ Spared) => data_element = orig_element
    /\ \A k \in DOMAIN saved :
            WasSaved(k) => SparedKept(batch[k].ds, saved[k].ds, policy.tags_2_spare)

\* The remove_info half of C1 alone.
C1_RuleSpares == (Returned /\ Spared) => data_element = orig_element

RECURSIVE NoPrivate(_)
NoPrivate(ds) ==
    \A t \in DOMAIN ds :
        /\ ~IsPrivate(t)
        /\ \A k \in DOMAIN ds[t].items : NoPrivate(ds[t].items[k])

\* C6: a record anonymize wrote holds no private element at any level, also
\* when the private tag is spared or is a key of the update map.
C6_NoPrivateWritten ==
    \A k \in DOMAIN saved : WasSaved(k) => NoPrivate(saved[k].ds)

C6_Witness ==
    \E k \in DOMAIN saved :
        /\ WasSaved(k)
        /\ PrivateTag \in DOMAIN batch[k].ds
        /\ "OtherPatientIDsSequence" \in DOMAIN batch[k].ds
        /\ PrivateTag \in policy.tags_2_spare
        /\ policy.update = Dict([t \in {PrivateTag} |-> "NEW"])

\* The record as the rule engine left it, before the tags are created.
AfterWalk(k) ==
    walk(remove_private_tags(batch[k].ds),
         IF policy.tags = None THEN DefaultTags ELSE policy.tags.map,
         policy.update, policy.tags_2_spare)

\* C7: in a written record a tag of the creation map that the source record
\* lacks holds the chosen value, and one the source record has holds the value
\* the rule engine left it with.
C7_CreateOnlyAbsent ==
    \A k \in DOMAIN saved :
        WasSaved(k) =>
            \A t \in DOMAIN policy.tags_2_create :
                IF t \in DOMAIN AfterWalk(k)
                THEN saved[k].ds[t] = AfterWalk(k)[t]
                ELSE saved[k].ds[t].value = policy.tags_2_create[t]

\* C8: anonymize never raises on a file that cannot be parsed; it writes
\* nothing for that file, and every other file of the batch is written.
C8_FailureIsolated ==
    /\ anon_pc # "raised"
    /\ anon_pc = "done" =>
            \A k \in DOMAIN batch : WasSaved(k) <=> batch[k].valid

-----------------------------------------------------------------------------
(* Paths: str and pathlib.Path, held as sequences of characters *)

\* The suffix of the output root, one symbol of the alphabet.
Anonymized == "-Anonymized"

\* str.replace(old, new) for a non-empty old: every non-overlapping occurrence,
\* from the left.
RECURSIVE replace(_, _, _)
replace(s, old, new) ==
    IF Len(s) < Len(old) THEN s
    ELSE IF SubSeq(s, 1, Len(old)) = old
         THEN new \o replace(SubSeq(s, Len(old) + 1, Len(s)), old, new)
         ELSE <<Head(s)>> \o replace(Tail(s), old, new)

\* The index of the last "/" of p, 0 when p has none.
LastSlash(p) ==
    LET at == {i \in 1..Len(p) : p[i] = "/"}
    IN  IF at = {} THEN 0 ELSE CHOOSE i \in at : \A j \in at : j <= i

\* Path.parent, Path.name and the / operator of pathlib.
parent(p) ==
    IF p = <<"/">> \/ p = <<".">> THEN p
    ELSE IF LastSlash(p) = 0 THEN <<".">>
    ELSE IF LastSlash(p) = 1 THEN <<"/">>
    ELSE SubSeq(p, 1, LastSlash(p) - 1)

name(p) ==
    IF p = <<"/">> \/ p = <<".">> THEN <<>>
    ELSE SubSeq(p, LastSlash(p) + 1, Len(p))

joinpath(p, n) ==
    IF p = <<".">> THEN n
    ELSE IF p = <<"/">> THEN p \o n
    ELSE p \o <<"/">> \o n

\* The file a path names: a relative path is taken from the working directory.
Resolve(p) == IF Head(p) = "/" THEN p ELSE joinpath(cwd, p)

\* create_output_dir(file_dir, folder_dir).
create_output_dir(file_dir, folder_dir) ==
    replace(file_dir, folder_dir,
            joinpath(parent(folder_dir), name(folder_dir) \o <<Anonymized>>))

-----------------------------------------------------------------------------
(* create_dcm_df *)

\* config.py: the identity fields of the two modes.
unique_ids == <<"PatientName", "PatientID", "AccessionNumber">>
series_unique_ids == <<"PatientID", "SeriesInstanceUID">>

active_unique_ids == IF series_mode THEN series_unique_ids ELSE unique_ids

\* config.py: the fields the operator may update, with their default ''.
update_tag_defaults == {"PatientName", "PatientID", "BodyPartExamined"}
series_update_tag_defaults == update_tag_defaults \cup {"SeriesDescription"}

active_update_tags ==
    IF series_mode THEN series_update_tag_defaults ELSE update_tag_defaults

\* astype(str): a str is itself, None becomes the four characters of "None".
astype_str(v) == IF v = None THEN <<"N", "o", "n", "e">> ELSE v.s

\* '_'.join(values): the strings one after the other, "_" between them.
RECURSIVE join_(_)
join_(values) ==
    IF Len(values) = 0 THEN <<>>
    ELSE IF Len(values) = 1 THEN values[1]
    ELSE values[1] \o <<"_">> \o join_(Tail(values))

\* df[unique_ids].astype(str).agg('_'.join, axis=1) for one row.
PK(tags, ids) == join_([i \in DOMAIN ids |-> astype_str(tags[ids[i]])])

\* One row of the table: the directories, the fields read from the file f,
\* and the index PK.
Row(f, folder_dir, output_dir) ==
    [folder_dir |-> folder_dir, output_dir |-> output_dir,
     tags |-> f.tags, PK |-> PK(f.tags, active_unique_ids)]

\* Series mode: one row per file that dcmread could read, the directory of the
\* file as folder_dir.
series_rows(file_list) ==
    LET parsed == SelectSeq(file_list, LAMBDA f : f.valid)
    IN  [i \in DOMAIN parsed |->
            Row(parsed[i], parent(parsed[i].path),
                create_output_dir(parent(parsed[i].path), folder))]

\* df.drop_duplicates(subset=unique_ids): the first row of every tuple of
\* identity values.
drop_duplicates(rows, ids) ==
    LET key(r) == [i \in DOMAIN ids |-> r.tags[ids[i]]]
        first == {i \in DOMAIN rows : \A j \in 1..(i - 1) : key(rows[j]) # key(rows[i])}
        pick[i \in 0..Len(rows)] ==
            IF i = 0 THEN <<>>
            ELSE IF i \in first THEN Append(pick[i - 1], rows[i]) ELSE pick[i - 1]
    IN  pick[Len(rows)]

\* The loop of the non-series branch with a directory put on the processed
\* list by every file tried, read or not.
RECURSIVE first_per_dir_MarkOnFailure(_, _)
first_per_dir_MarkOnFailure(file_list, processed) ==
    IF file_list = <<>> THEN <<>>
    ELSE LET f == Head(file_list)
             rest == first_per_dir_MarkOnFailure(Tail(file_list),
                                                 processed \cup {parent(f.path)})
         IN  IF parent(f.path) \in processed \/ ~f.valid THEN rest
             ELSE <<[folder_dir |-> parent(f.path),
                     output_dir |-> create_output_dir(name(folder), parent(folder)),
                     tags |-> f.tags, PK |-> PK(f.tags, active_unique_ids)]>> \o rest

\* Non-series mode: the first file of every directory that dcmread could read;
\* output_dir is create_output_dir(folder_dir.name, folder_dir.parent).
RECURSIVE first_per_dir(_, _)
first_per_dir(file_list, processed) ==
    IF file_list = <<>> THEN <<>>
    ELSE LET f == Head(file_list)
         IN  IF parent(f.path) \in processed \/ ~f.valid
             THEN first_per_dir(Tail(file_list), processed)
             ELSE <<Row(f, parent(f.path),
                        create_output_dir(name(folder), parent(folder)))>>
                    \o first_per_dir(Tail(file_list), processed \cup {parent(f.path)})

\* The paths the non-series loop hands to dcmread: every file whose directory
\* is not yet on the processed list; a directory is put on the list by a file
\* that was read, not by one that failed.
RECURSIVE dcmread_per_dir(_, _)
dcmread_per_dir(file_list, processed) ==
    IF file_list = <<>> THEN <<>>
    ELSE LET f == Head(file_list)
         IN  IF parent(f.path) \in processed
             THEN dcmread_per_dir(Tail(file_list), processed)
             ELSE <<f.path>>
                    \o dcmread_per_dir(Tail(file_list),
                                       IF f.valid THEN processed \cup {parent(f.path)}
                                       ELSE processed)

\* The paths create_dcm_df hands to dcmread: in series mode every file.
dcmread_calls(file_list) ==
    IF series_mode THEN [i \in DOMAIN file_list |-> file_list[i].path]
    ELSE dcmread_per_dir(file_list, {})

\* df[unique_ids].astype(str).agg('_'.join, axis=1) on a frame without rows:
\* DataFrame.agg hands a callable to DataFrame.apply, which probes it once on
\* an empty frame and answers with an empty Series or with a copy of the
\* frame, as the pandas release has it.
EmptyAgg == {"Series", "DataFrame"}

\* df['PK'] = ... raises ValueError for a frame of several columns.
assign_PK_raises(df, empty_agg) ==
    /\ df = <<>>
    /\ empty_agg = "DataFrame"
    /\ Len(active_unique_ids) > 1

\* create_dcm_df(folder, fformat, unique_ids, ref_tags, new_tags, series_mode):
\* the table returned.  In series mode the frame with the duplicates dropped
\* is bound to df and then replaced: dcm_info always has its two directory
\* keys, so df is built again from dcm_info before PK is added.
create_dcm_df(file_list) ==
    LET rows == IF series_mode THEN series_rows(file_list)
                ELSE first_per_dir(file_list, {})
        df_series == drop_duplicates(rows, active_unique_ids)
        len_dcm_info == Cardinality({"folder_dir", "output_dir"} \cup Range(active_unique_ids))
        df == IF len_dcm_info # 0 THEN rows ELSE None
    IN  df

-----------------------------------------------------------------------------
(* streamlit_app: the tables of the page and the Run loop *)

\* uids_df.loc[~uids_df.index.duplicated()]: the first row of every PK.
index_deduplicated(rows) ==
    LET first == {i \in DOMAIN rows : \A j \in 1..(i - 1) : rows[j].PK # rows[i].PK}
        pick[i \in 0..Len(rows)] ==
            IF i = 0 THEN <<>>
            ELSE IF i \in first THEN Append(pick[i - 1], rows[i]) ELSE pick[i - 1]
    IN  pick[Len(rows)]

\* create_update_cols: every Update_ column holds its rule, the constant ''.
create_update_cols(rows, update_tags) ==
    [i \in DOMAIN rows |->
        [PK |-> rows[i].PK, tags |-> rows[i].tags,
         Update |-> [t \in update_tags |-> Blank]]]

\* st.session_state['edit_df'].
edit_df ==
    create_update_cols(
        IF series_mode THEN dcm_info ELSE index_deduplicated(dcm_info),
        active_update_tags)

\* dcm_info.filter(like='dir').join(edit_df.filter(like='Update_')): a join on
\* the index PK, every row of the left with every row of the right that has
\* the same PK, in the order of the left.
RECURSIVE join(_, _)
join(left, right) ==
    IF left = <<>> THEN <<>>
    ELSE LET l == Head(left)
             matches == SelectSeq(right, LAMBDA r : r.PK = l.PK)
         IN  [i \in DOMAIN matches |->
                [folder_dir |-> l.folder_dir, output_dir |-> l.output_dir,
                 PK |-> l.PK, tags |-> matches[i].tags, Update |-> matches[i].Update]]
             \o join(Tail(left), right)

\* The table of consolidate_tags: the numeric tag it holds for a keyword.
tag_dict ==
    [PatientName |-> "(0010,0010)", PatientID |-> "(0010,0020)",
     PatientBirthDate |-> "(0010,0030)", PatientSex |-> "(0010,0040)",
     AccessionNumber |-> "(0008,0050)", InstitutionName |-> "(0008,0080)",
     StudyDate |-> "(0008,0020)", StudyTime |-> "(0008,0031)",
     BodyPartExamined |-> "(0018,0015)"]

\* row.get(f'Update_{dcm_tag}'): the cell, None when the row has no such column.
row_get(row, dcm_tag) ==
    IF dcm_tag \in DOMAIN row.Update THEN row.Update[dcm_tag] ELSE None

\* consolidate_tags(row, update_tags): the update map keyed by the tags of
\* tag_dict, or KeyError for a field with a value that tag_dict lacks.
consolidate_tags(row, update_tags) ==
    LET filled == {t \in update_tags : row_get(row, t) # None /\ row_get(row, t) # Blank}
        known == filled \cap DOMAIN tag_dict
    IN  [raised |-> ~(filled \subseteq DOMAIN tag_dict),
         update |-> Dict([k \in {tag_dict[t] : t \in known} |->
                            row_get(row, CHOOSE t \in known : tag_dict[t] = k)])]

\* The data dictionary of pydicom for the fields of the tables: the numeric
\* tag an element of the keyword carries.
DataDictionary ==
    [PatientName |-> "(0010,0010)", PatientID |-> "(0010,0020)",
     PatientBirthDate |-> "(0010,0030)", PatientSex |-> "(0010,0040)",
     AccessionNumber |-> "(0008,0050)", InstitutionName |-> "(0008,0080)",
     StudyDate |-> "(0008,0020)", StudyTime |-> "(0008,0030)",
     SeriesTime |-> "(0008,0031)", SeriesDescription |-> "(0008,103E)",
     SeriesInstanceUID |-> "(0020,000E)", BodyPartExamined |-> "(0018,0015)"]

\* data_element.tag in update.keys(): the elements of the model carry their
\* keyword, so the map is read by the keyword of each of its tags.
by_keyword(update) ==
    LET hit == {kw \in DOMAIN DataDictionary : DataDictionary[kw] \in DOMAIN update.map}
    IN  Dict([kw \in hit |-> update.map[DataDictionary[kw]]])

\* Path(folder_dir).rglob(pattern): the files below folder_dir.
IsBelow(path, dir) ==
    /\ Len(path) > Len(dir) + 1
    /\ SubSeq(path, 1, Len(dir) + 1) = dir \o <<"/">>

rglob(dir) == SelectSeq(files, LAMBDA f : IsBelow(f.path, dir))

-----------------------------------------------------------------------------
(* SpecRun: the files under the root, "Fetch files", then "Run" *)

\* Most files under the root.
MaxFiles == 3

Folders == {<<"/", "w", "/", "d">>, <<"d">>}

WorkingDirs == {<<"/", "w">>, <<"/", "x">>}

\* The places a file can be at, in the order rglob yields them: the root and
\* its sub-directory d, three file names each.
Positions ==
    <<[sub |-> <<>>, name |-> "f.dcm"], [sub |-> <<>>, name |-> "g.dcm"],
      [sub |-> <<>>, name |-> "h.dcm"], [sub |-> <<"d">>, name |-> "f.dcm"],
      [sub |-> <<"d">>, name |-> "g.dcm"], [sub |-> <<"d">>, name |-> "h.dcm"]>>

PathAt(root, pos) ==
    joinpath(IF pos.sub = <<>> THEN root ELSE joinpath(root, pos.sub), <<pos.name>>)

\* What a file holds: nothing dcmread can read, or the identity fields of one
\* of three series (two of one patient, one of another patient that reuses a
\* series identifier).
Absent == [kind |-> "absent"]
Invalid == [kind |-> "file", valid |-> FALSE, tags |-> <<>>]
Valid(pname, pid, acc, uid) ==
    [kind |-> "file", valid |-> TRUE,
     tags |-> [PatientName |-> pname, PatientID |-> pid,
               AccessionNumber |-> acc, SeriesInstanceUID |-> uid]]

John == Str(<<"J", "o", "h", "n">>)
Mary == Str(<<"M", "a", "r", "y">>)
P1 == Str(<<"P", "1">>)
P2 == Str(<<"P", "2">>)
A1 == Str(<<"A", "1">>)
A2 == Str(<<"A", "2">>)
S1 == Str(<<"S", "1">>)
S2 == Str(<<"S", "2">>)

Contents ==
    {Invalid, Valid(John, P1, A1, S1), Valid(John, P1, A1, S2), Valid(Mary, P2, A2, S1)}

\* The record of a file of the run: its patient fields and BodyPartExamined.
RunRecord(tags) ==
    [t \in {"PatientName", "PatientID", "BodyPartExamined"} |->
        Element(t, IF t = "BodyPartExamined" THEN "KNEE" ELSE tags[t])]

FileAt(root, pos, c) ==
    [path |-> PathAt(root, pos), valid |-> c.valid, tags |-> c.tags,
     ds |-> IF c.valid THEN RunRecord(c.tags) ELSE <<>>]

FileList(root, content) ==
    LET present == SelectSeq([i \in DOMAIN Positions |-> i], LAMBDA i : content[i] # Absent)
    IN  [k \in DOMAIN present |-> FileAt(root, Positions[present[k]], content[present[k]])]

\* config.py: tags_2_anon, tags_2_spare; every file of the run holds
\* BodyPartExamined, so streamlit_app builds an empty tags_2_create.
tags_2_anon == None
tags_2_spare == {}
run_tags_2_create == <<>>

InitRun ==
    /\ RuleIdle
    /\ AnonIdle
    /\ KeyIdle
    /\ UploadIdle
    /\ ConsIdle
    /\ RenameIdle
    /\ run_pc = "start"
    /\ cwd \in WorkingDirs
    /\ folder \in Folders
    /\ series_mode \in BOOLEAN
    /\ \E content \in [DOMAIN Positions -> Contents \cup {Absent}] :
            /\ Cardinality({i \in DOMAIN Positions : content[i] # Absent}) <= MaxFiles
            /\ files = FileList(folder, content)
    /\ dcm_info = <<>>
    /\ anon_dcm_df = <<>>
    /\ run_r = 0
    /\ run_f = 0
    /\ calls = <<>>
    /\ reads = <<>>

\* "Fetch files": create_dcm_df over the files below the root returns.
Fetch ==
    /\ run_pc = "start"
    /\ \E empty_agg \in EmptyAgg : ~assign_PK_raises(create_dcm_df(rglob(folder)), empty_agg)
    /\ dcm_info' = create_dcm_df(rglob(folder))
    /\ reads' = dcmread_calls(rglob(folder))
    /\ run_pc' = "fetched"
    /\ UNCHANGED <<cwd, folder, series_mode, files, anon_dcm_df, run_r, run_f, calls,
                   ruleVars, anonVars, keyVars, uploadVars, consVars,
                   renameVars>>

\* "Fetch files": create_dcm_df raises; the handler catches, shows the error
\* and leaves st.session_state['dcm_info'] as it was.
FetchRaises ==
    /\ run_pc = "start"
    /\ \E empty_agg \in EmptyAgg : assign_PK_raises(create_dcm_df(rglob(folder)), empty_agg)
    /\ reads' = dcmread_calls(rglob(folder))
    /\ run_pc' = "fetch raised"
    /\ UNCHANGED <<cwd, folder, series_mode, files, dcm_info, anon_dcm_df, run_r, run_f,
                   calls, ruleVars, anonVars, keyVars, uploadVars, consVars,
                   renameVars>>

\* "Run": the joined table, then the loop over its rows.
RunStart ==
    /\ run_pc = "fetched"
    /\ anon_dcm_df' = join(dcm_info, edit_df)
    /\ run_r' = 1
    /\ run_f' = 1
    /\ run_pc' = "running"
    /\ UNCHANGED <<reads, cwd, folder, series_mode, files, dcm_info, calls,
                   ruleVars, anonVars, keyVars, uploadVars, consVars,
                   renameVars>>

RowFiles == rglob(anon_dcm_df[run_r].folder_dir)

InLoop == run_pc = "running" /\ run_r <= Len(anon_dcm_df)

\* The call of the loop body for the current row and file.
RunCall ==
    LET row == anon_dcm_df[run_r]
        consolidated == consolidate_tags(row, active_update_tags)
        result == anonymize(RowFiles[run_f], tags_2_anon, by_keyword(consolidated.update),
                            tags_2_spare, run_tags_2_create)
    IN  [raised |-> consolidated.raised \/ result.raised,
         src |-> RowFiles[run_f].path,
         dst |-> row.output_dir \o <<"/">> \o name(RowFiles[run_f].path),
         row |-> run_r]

RunAnonymizeReturns ==
    /\ InLoop
    /\ run_f <= Len(RowFiles)
    /\ ~RunCall.raised
    /\ calls' = Append(calls, [src |-> RunCall.src, dst |-> RunCall.dst, row |-> RunCall.row])
    /\ run_f' = run_f + 1
    /\ UNCHANGED <<reads, run_pc, cwd, folder, series_mode, files, dcm_info, anon_dcm_df, run_r,
                   ruleVars, anonVars, keyVars, uploadVars, consVars,
                   renameVars>>

\* Nothing around the call catches: the exception ends the Run handler.
RunAnonymizeRaises ==
    /\ InLoop
    /\ run_f <= Len(RowFiles)
    /\ RunCall.raised
    /\ run_pc' = "raised"
    /\ UNCHANGED <<reads, cwd, folder, series_mode, files, dcm_info, anon_dcm_df, run_r, run_f,
                   calls, ruleVars, anonVars, keyVars, uploadVars, consVars,
                   renameVars>>

RunNextRow ==
    /\ InLoop
    /\ run_f > Len(RowFiles)
    /\ run_r' = run_r + 1
    /\ run_f' = 1
    /\ UNCHANGED <<reads, run_pc, cwd, folder, series_mode, files, dcm_info, anon_dcm_df, calls,
                   ruleVars, anonVars, keyVars, uploadVars, consVars,
                   renameVars>>

RunDone ==
    /\ run_pc = "running"
    /\ run_r > Len(anon_dcm_df)
    /\ run_pc' = "done"
    /\ UNCHANGED <<reads, cwd, folder, series_mode, files, dcm_info, anon_dcm_df, run_r, run_f,
                   calls, ruleVars, anonVars, keyVars, uploadVars, consVars,
                   renameVars>>

NextRun ==
    \/ Fetch
    \/ FetchRaises
    \/ RunStart
    \/ RunAnonymizeReturns
    \/ RunAnonymizeRaises
    \/ RunNextRow
    \/ RunDone

SpecRun == InitRun /\ [][NextRun]_vars

-----------------------------------------------------------------------------
(* Properties of the run (SpecRun) *)

\* The run in series mode alone keeps sources and destinations apart.
SeriesRunKeepsSources ==
    series_mode =>
        \A i \in DOMAIN calls :
            \A j \in DOMAIN files : Resolve(calls[i].dst) # Resolve(files[j].path)

\* C5: the destination of every file the run writes is the path of no source
\* file under the root, in either mode.
C5_SourceNeverOverwritten ==
    \A i \in DOMAIN calls :
        \A j \in DOMAIN files : Resolve(calls[i].dst) # Resolve(files[j].path)

FileOf(path) == CHOOSE f \in Range(files) : f.path = path

Fetched == run_pc \notin {"idle", "start", "fetch raised"}

\* C9: in series mode every file is handed to anonymize with the update map of
\* the row of its own series and of no other row, and a finished run has
\* handed over every file that can be read.
C9_SeriesScope ==
    series_mode =>
        /\ \A i \in DOMAIN calls :
                anon_dcm_df[calls[i].row].tags.SeriesInstanceUID
                    = FileOf(calls[i].src).tags.SeriesInstanceUID
        /\ run_pc = "done" =>
                \A j \in DOMAIN files :
                    files[j].valid => \E i \in DOMAIN calls : calls[i].src = files[j].path

\* The identity key of a file: its patient id and its series id.
IdentityKey(tags) == <<tags.PatientID, tags.SeriesInstanceUID>>

\* C10: the table create_dcm_df returns in series mode has exactly one row for
\* every identity key among the files that parsed.
C10_OneRowPerSeries ==
    (series_mode /\ Fetched) =>
        \A j \in DOMAIN files :
            files[j].valid =>
                Cardinality({i \in DOMAIN dcm_info :
                    IdentityKey(dcm_info[i].tags) = IdentityKey(files[j].tags)}) = 1

-----------------------------------------------------------------------------
(* Properties of the case table (SpecRun) *)

\* C11: the table create_dcm_df returns in non-series mode holds no two rows
\* with the same index PK, wherever the files of a patient lie.
C11_UniqueRowKey ==
    (~series_mode /\ Fetched) =>
        \A i, j \in DOMAIN dcm_info : i # j => dcm_info[i].PK # dcm_info[j].PK

\* The directories that hold a file, the files of one directory in the order
\* of enumeration, and the place of the first of them that can be read (0 when
\* none can).
DirsOf == {parent(files[j].path) : j \in DOMAIN files}
FilesIn(dir) == SelectSeq(files, LAMBDA f : parent(f.path) = dir)
FirstValid(dir) ==
    LET ok == {k \in DOMAIN FilesIn(dir) : FilesIn(dir)[k].valid}
    IN  IF ok = {} THEN 0 ELSE CHOOSE k \in ok : \A m \in ok : k <= m

\* C12: in non-series mode a directory has one row when one of its files can
\* be read and none otherwise; the row holds the fields of the first file that
\* can be read; dcmread is called on the files of the directory up to that
\* file, the ones that failed before it included, and on none after it.
C12_FirstFilePerDirectory ==
    (~series_mode /\ Fetched) =>
        \A dir \in DirsOf :
            LET v == FirstValid(dir)
                rows == {i \in DOMAIN dcm_info : dcm_info[i].folder_dir = dir}
                tried == IF v = 0 THEN Len(FilesIn(dir)) ELSE v
            IN  /\ Cardinality(rows) = IF v = 0 THEN 0 ELSE 1
                /\ \A i \in rows : dcm_info[i].tags = FilesIn(dir)[v].tags
                /\ SelectSeq(reads, LAMBDA q : parent(q) = dir)
                        = [k \in 1..tried |-> FilesIn(dir)[k].path]

\* A directory whose first file fails, whose second file is read and whose
\* third file is left alone.
C12_Witness ==
    /\ ~series_mode
    /\ Fetched
    /\ \E dir \in DirsOf :
            /\ Len(FilesIn(dir)) = 3
            /\ FirstValid(dir) = 2
            /\ FilesIn(dir)[3].valid
            /\ FilesIn(dir)[3].tags # FilesIn(dir)[2].tags
            /\ FilesIn(dir)[3].path \notin Range(reads)
            /\ FilesIn(dir)[1].path \in Range(reads)
            /\ \E i \in DOMAIN dcm_info : dcm_info[i].folder_dir = dir

\* C13: every row of the non-series table has as output_dir its folder_dir
\* with the root replaced by its "-Anonymized" sibling.
C13_OutputDirOfSourceDir ==
    (~series_mode /\ Fetched) =>
        \A i \in DOMAIN dcm_info :
            dcm_info[i].output_dir = create_output_dir(dcm_info[i].folder_dir, folder)

\* The path under the "-Anonymized" sibling of root that has the same relative
\* part as path has under root.
Mirror(path, root) ==
    LET sibling == joinpath(parent(root), name(root) \o <<Anonymized>>)
    IN  IF path = root THEN sibling
        ELSE sibling \o SubSeq(path, Len(root) + 1, Len(path))

\* C14: create_output_dir(path, root), as the series branch applies it to the
\* directory of every file under the root, is parent(root)/<name>-Anonymized
\* followed by the unchanged path of the directory relative to the root.
C14_MirrorsRelativePath ==
    (series_mode /\ Fetched) =>
        \A i \in DOMAIN dcm_info :
            dcm_info[i].output_dir = Mirror(dcm_info[i].folder_dir, folder)

\* C15: with no file under the root that can be read, create_dcm_df returns
\* (None or a table without rows) and does not raise, in either mode.
C15_ZeroFilesNoRaise ==
    (\A j \in DOMAIN files : ~files[j].valid) => run_pc # "fetch raised"

-----------------------------------------------------------------------------
(* SpecKey: the index PK of two rows of the case table *)

\* What a row can hold in an identity field: None for a field the file lacks,
\* '', a plain value, a value with the separator in it, and the word None.
KeyValues ==
    {None, Blank, Str(<<"A">>), Str(<<"A", "_", "A">>), Str(<<"N", "o", "n", "e">>)}

\* The identity fields of the two modes.
KeyIds == {unique_ids, series_unique_ids}

\* The identity values of a row; PatientName is read with '' as its default,
\* every other field with None.
KeyRows(ids) ==
    {r \in [Range(ids) -> KeyValues] :
        "PatientName" \in DOMAIN r => r["PatientName"] # None}

InitKey ==
    /\ RuleIdle
    /\ AnonIdle
    /\ RunIdle
    /\ UploadIdle
    /\ ConsIdle
    /\ RenameIdle
    /\ key_pc = "ready"
    /\ key_ids \in KeyIds
    /\ key_rows \in [1..2 -> KeyRows(key_ids)]
    /\ keys = <<>>

\* df['PK'] = df[unique_ids].astype(str).agg('_'.join, axis=1).
BuildKeys ==
    /\ key_pc = "ready"
    /\ keys' = [i \in DOMAIN key_rows |-> PK(key_rows[i], key_ids)]
    /\ key_pc' = "built"
    /\ UNCHANGED <<key_ids, key_rows, ruleVars, anonVars, runVars, uploadVars, consVars,
                   renameVars>>

NextKey == BuildKeys

SpecKey == InitKey /\ [][NextKey]_vars

\* C16: two rows have the same PK exactly when they have the same identity
\* values, values that hold the separator and absent fields included.
C16_KeyInjective ==
    key_pc = "built" => ((keys[1] = keys[2]) <=> (key_rows[1] = key_rows[2]))

-----------------------------------------------------------------------------
(* ui_logic: validate_upload and update_data_editor *)

\* A table the operator uploaded: the raw columns it has, the Update_ columns
\* it has (named by their tag), and its rows [raw, Update].  A case table is a
\* sequence of rows [PK, tags, Update], PK being the index label.

\* A result that is either an exception or a value.
Raised == [raised |-> TRUE]
Returned_(v) == [raised |-> FALSE, value |-> v]

\* Series.unique().tolist(): every value once, in the order of first occurrence.
unique(values) ==
    LET first == {i \in DOMAIN values : \A j \in 1..(i - 1) : values[j] # values[i]}
        pick[i \in 0..Len(values)] ==
            IF i = 0 THEN <<>>
            ELSE IF i \in first THEN Append(pick[i - 1], values[i]) ELSE pick[i - 1]
    IN  pick[Len(values)]

\* check_unmatched_rows with the proposed-value column of the upload ignored.
check_unmatched_rows_RawOnly(upload_df, edit_df_, upload_df_id) ==
    LET raw == {upload_df.rows[k].raw[upload_df_id] : k \in DOMAIN upload_df.rows}
        unmatched == SelectSeq(edit_df_, LAMBDA r : r.tags[upload_df_id] \notin raw)
    IN  unique([i \in DOMAIN unmatched |-> unmatched[i].tags[upload_df_id]])

\* check_unmatched_rows(upload_df, edit_df, upload_df_id): the values of the
\* matching field of the case rows found neither in the raw column nor in the
\* Update_ column of the upload.
check_unmatched_rows(upload_df, edit_df_, upload_df_id) ==
    LET raw == {upload_df.rows[k].raw[upload_df_id] : k \in DOMAIN upload_df.rows}
        proposed == {upload_df.rows[k].Update[upload_df_id] : k \in DOMAIN upload_df.rows}
        unmatched == SelectSeq(edit_df_, LAMBDA r : /\ r.tags[upload_df_id] \notin raw
                                                    /\ r.tags[upload_df_id] \notin proposed)
    IN  unique([i \in DOMAIN unmatched |-> unmatched[i].tags[upload_df_id]])

\* check_empty_cols(df, update_tags) on a table of the shape of an upload: the
\* Update_ columns with a null or '' cell, in the order of update_tags;
\* KeyError when the table lacks one of the columns.
check_empty_cols(df, update_tags) ==
    IF ~(Range(update_tags) \subseteq df.update_cols) THEN Raised
    ELSE Returned_(SelectSeq(update_tags,
                    LAMBDA t : \E k \in DOMAIN df.rows : df.rows[k].Update[t] \in {None, Blank}))

\* The messages of validate_upload.
EmptyValues(cols) == [kind |-> "empty values", cols |-> cols]
MustContain(prefix, col) == [kind |-> "must be contained", prefix |-> prefix, col |-> col]
NoMatches(ids) == [kind |-> "no matches", ids |-> ids]

\* validate_upload that looks for empty cells only in the Update_ columns the
\* upload has, and so returns where check_empty_cols raises.
validate_upload_PresentColumnsOnly(edit_df_, upload_df, update_tags, upload_df_id) ==
    LET present == SelectSeq(update_tags, LAMBDA t : t \in upload_df.update_cols)
        empty_col == check_empty_cols(upload_df, present).value
    IN  IF Len(empty_col) > 0 THEN Returned_(EmptyValues(empty_col))
        ELSE IF upload_df_id \notin upload_df.update_cols
             THEN Returned_(MustContain("Update_", upload_df_id))
        ELSE IF upload_df_id \notin upload_df.raw_cols
             THEN Returned_(MustContain("", upload_df_id))
        ELSE LET unmatched_ids == check_unmatched_rows(upload_df, edit_df_, upload_df_id)
             IN  IF unmatched_ids # <<>> THEN Returned_(NoMatches(unmatched_ids))
                 ELSE Returned_(None)

\* validate_upload(edit_df, upload_df, update_tags, upload_df_id): the empty
\* columns are looked for in upload_df.
validate_upload(edit_df_, upload_df, update_tags, upload_df_id) ==
    LET empty_col == check_empty_cols(upload_df, update_tags)
    IN  IF empty_col.raised THEN Raised
        ELSE IF Len(empty_col.value) > 0 THEN Returned_(EmptyValues(empty_col.value))
        ELSE IF upload_df_id \notin upload_df.update_cols
             THEN Returned_(MustContain("Update_", upload_df_id))
        ELSE IF upload_df_id \notin upload_df.raw_cols
             THEN Returned_(MustContain("", upload_df_id))
        ELSE LET unmatched_ids == check_unmatched_rows(upload_df, edit_df_, upload_df_id)
             IN  IF unmatched_ids # <<>> THEN Returned_(NoMatches(unmatched_ids))
                 ELSE Returned_(None)

\* The rows of edit_df chosen for an uploaded row, by the proposed PatientID
\* of the case rows.
matching_row_OnProposed(edit_df_, row_udf) ==
    SelectSeq(edit_df_, LAMBDA r : r.Update["PatientID"] = row_udf.raw["PatientID"])

\* edit_df[edit_df['PatientID'] == row_udf['PatientID']].
matching_row(edit_df_, row_udf) ==
    SelectSeq(edit_df_, LAMBDA r : r.tags["PatientID"] = row_udf.raw["PatientID"])

\* The tags of update_tags, in order, up to the first one row_udf has no
\* Update_ column for.
RECURSIVE readable(_, _)
readable(update_tags, update_cols) ==
    IF update_tags = <<>> \/ Head(update_tags) \notin update_cols THEN <<>>
    ELSE <<Head(update_tags)>> \o readable(Tail(update_tags), update_cols)

\* edit_df.at[idx, col] = row_udf[col] for the given tags: the cells of every
\* row with the index label idx.
at_set(edit_df_, idx, row_udf, tags) ==
    [i \in DOMAIN edit_df_ |->
        IF edit_df_[i].PK # idx THEN edit_df_[i]
        ELSE [edit_df_[i] EXCEPT !.Update =
                [t \in DOMAIN @ |-> IF t \in Range(tags) THEN row_udf.Update[t] ELSE @[t]]]]

\* The loop of update_data_editor from the k-th uploaded row on; edit_df is
\* written in place, so a KeyError leaves the cells written before it.
RECURSIVE update_rows(_, _, _, _)
update_rows(edit_df_, upload_df, update_tags, k) ==
    IF k > Len(upload_df.rows) THEN [raised |-> FALSE, df |-> edit_df_]
    ELSE IF "PatientID" \notin upload_df.raw_cols THEN [raised |-> TRUE, df |-> edit_df_]
    ELSE LET row_udf == upload_df.rows[k]
             matching == matching_row(edit_df_, row_udf)
         IN  IF matching = <<>> THEN update_rows(edit_df_, upload_df, update_tags, k + 1)
             ELSE LET idx == matching[1].PK
                      tags == readable(update_tags, upload_df.update_cols)
                      written == at_set(edit_df_, idx, row_udf, tags)
                  IN  IF Len(tags) < Len(update_tags)
                      THEN [raised |-> TRUE, df |-> written]
                      ELSE update_rows(written, upload_df, update_tags, k + 1)

\* update_data_editor(edit_df, upload_df, update_tags).
update_data_editor(edit_df_, upload_df, update_tags) ==
    update_rows(edit_df_, upload_df, update_tags, 1)

-----------------------------------------------------------------------------
(* SpecUpload: validate_upload and update_data_editor on a case table *)

\* Most rows of the case table and of the uploaded table.
MaxCases == 2
MaxUploads == 2

\* The fields the operator may match on, and the fields to update.
MatcherIds == {"PatientID", "AccessionNumber"}
UploadUpdateTags == <<"PatientName", "PatientID">>

\* A PatientID of digits only.
N7 == Str(<<"0", "7">>)

\* The identity of a case: two cases of one patient, one case of another, one
\* case of a patient whose identifier is a number.
CaseTags ==
    {[PatientID |-> P1, AccessionNumber |-> A1], [PatientID |-> P1, AccessionNumber |-> A2],
     [PatientID |-> P2, AccessionNumber |-> A2], [PatientID |-> N7, AccessionNumber |-> A1]}

\* A case row with every proposed value the same: '' as create_update_cols
\* leaves it, or a value filled in before.
CaseRow(tags, prior) ==
    [PK |-> PK(tags, <<"PatientID", "AccessionNumber">>), tags |-> tags,
     Update |-> [t \in Range(UploadUpdateTags) |-> prior]]

CaseTables ==
    UNION {[1..n -> {CaseRow(tags, prior) : tags \in CaseTags}] :
            n \in 0..MaxCases, prior \in {Blank, P1}}

\* The columns of an upload: those of the template and Update_AccessionNumber,
\* with at most one of them missing.
UploadShapes ==
    {sh \in [raw_cols : SUBSET MatcherIds,
             update_cols : SUBSET (Range(UploadUpdateTags) \cup MatcherIds)] :
        Cardinality(sh.raw_cols) + Cardinality(sh.update_cols) >= 4}

Ann == Str(<<"A", "n", "n">>)

\* An uploaded row: a patient with its accession number, a proposed PatientID
\* that is blank or the identifier of the other patient, a proposed
\* PatientName that is blank or a name, and a fixed Update_AccessionNumber.
UploadRow(sh, pid, new_pid, new_name) ==
    [raw |-> [c \in sh.raw_cols |->
                IF c = "PatientID" THEN pid ELSE IF pid = P1 THEN A1 ELSE A2],
     Update |-> [t \in sh.update_cols |->
                IF t = "PatientID" THEN new_pid
                ELSE IF t = "PatientName" THEN new_name ELSE A1]]

UploadTables ==
    UNION {{[raw_cols |-> sh.raw_cols, update_cols |-> sh.update_cols, rows |-> rows] :
                rows \in [1..n -> {UploadRow(sh, pid, new_pid, new_name) :
                                    pid \in {P1, P2}, new_pid \in {Blank, P2},
                                    new_name \in {Blank, Ann}}]} :
            n \in 0..MaxUploads, sh \in UploadShapes}

\* The template: st.session_state['edit_df'].reset_index(drop=True) with the
\* raw columns of the case table and the Update_ columns of the fields to
\* update, every Update_ cell filled in with the value fill.
Template(edit_df_, fill) ==
    [raw_cols |-> MatcherIds,
     update_cols |-> Range(UploadUpdateTags),
     rows |-> [i \in DOMAIN edit_df_ |->
                [raw |-> edit_df_[i].tags,
                 Update |-> [t \in Range(UploadUpdateTags) |-> fill]]]]

\* What pd.read_csv makes of a column written by to_csv: ints when every cell
\* is a string of digits, otherwise the strings, with NaN for ''.
read_column(cells) ==
    IF cells # <<>> /\ \A k \in DOMAIN cells : IsDigits(cells[k].s)
    THEN [k \in DOMAIN cells |-> PyInt(int_(cells[k].s))]
    ELSE [k \in DOMAIN cells |-> IF cells[k] = Blank THEN None ELSE cells[k]]

\* pd.read_csv of the to_csv text of a table: the columns kept, each re-typed.
read_csv(df) ==
    LET raw(c) == read_column([k \in DOMAIN df.rows |-> df.rows[k].raw[c]])
        upd(t) == read_column([k \in DOMAIN df.rows |-> df.rows[k].Update[t]])
    IN  [df EXCEPT !.rows =
            [k \in DOMAIN @ |-> [raw |-> [c \in df.raw_cols |-> raw(c)[k]],
                                 Update |-> [t \in df.update_cols |-> upd(t)[k]]]]]

\* The values the operator fills the template with.
TemplateFills == {Ann, P2}

InitUpload ==
    /\ RuleIdle
    /\ AnonIdle
    /\ RunIdle
    /\ KeyIdle
    /\ ConsIdle
    /\ RenameIdle
    /\ up_pc = "ready"
    /\ up_orig \in CaseTables
    /\ up_edit_df = up_orig
    /\ up_upload_df \in
            UploadTables \cup {read_csv(Template(up_orig, fill)) : fill \in TemplateFills}
    /\ up_args \in [update_tags : {UploadUpdateTags}, upload_df_id : MatcherIds]
    /\ up_message = None
    /\ up_first = <<>>

UploadValidation ==
    validate_upload(up_edit_df, up_upload_df, up_args.update_tags, up_args.upload_df_id)

\* validate_upload returns its message, or None.
Validate ==
    /\ up_pc = "ready"
    /\ ~UploadValidation.raised
    /\ up_message' = UploadValidation.value
    /\ up_pc' = "validated"
    /\ UNCHANGED <<up_orig, up_edit_df, up_upload_df, up_args, up_first,
                   ruleVars, anonVars, runVars, keyVars, consVars,
                   renameVars>>

\* validate_upload raises KeyError.
ValidateRaises ==
    /\ up_pc = "ready"
    /\ UploadValidation.raised
    /\ up_pc' = "validate raised"
    /\ UNCHANGED <<up_orig, up_edit_df, up_upload_df, up_args, up_message, up_first,
                   ruleVars, anonVars, runVars, keyVars, consVars,
                   renameVars>>

UploadMerge == update_data_editor(up_edit_df, up_upload_df, up_args.update_tags)

\* update_data_editor, called on its own or after a validation without error.
Merge ==
    /\ up_pc = "ready" \/ (up_pc = "validated" /\ up_message = None)
    /\ ~UploadMerge.raised
    /\ up_edit_df' = UploadMerge.df
    /\ up_first' = UploadMerge.df
    /\ up_pc' = "merged"
    /\ UNCHANGED <<up_orig, up_upload_df, up_args, up_message,
                   ruleVars, anonVars, runVars, keyVars, consVars,
                   renameVars>>

\* The same upload merged a second time.
MergeAgain ==
    /\ up_pc = "merged"
    /\ ~UploadMerge.raised
    /\ up_edit_df' = UploadMerge.df
    /\ up_pc' = "merged again"
    /\ UNCHANGED <<up_orig, up_upload_df, up_args, up_message, up_first,
                   ruleVars, anonVars, runVars, keyVars, consVars,
                   renameVars>>

\* update_data_editor raises KeyError, the cells written before it kept.
MergeRaises ==
    /\ up_pc \in {"ready", "merged"} \/ (up_pc = "validated" /\ up_message = None)
    /\ UploadMerge.raised
    /\ up_edit_df' = UploadMerge.df
    /\ up_pc' = "merge raised"
    /\ UNCHANGED <<up_orig, up_upload_df, up_args, up_message, up_first,
                   ruleVars, anonVars, runVars, keyVars, consVars,
                   renameVars>>

\* A Python call of update_data_editor with the positional arguments args:
\* TypeError, before the body runs, unless there are three of them.
call_update_data_editor(args) ==
    IF Len(args) # 3 THEN [raised |-> TRUE, df |-> args[1]]
    ELSE update_data_editor(args[1], args[2], args[3])

\* upload_df.fillna('').astype(str): a null cell becomes '', an int its
\* decimal digits, a string cell stays as it is.
cell_str(v) ==
    IF v = None THEN Blank ELSE IF v.kind = "int" THEN Str(str_int(v.n)) ELSE v

fillna_astype_str(upload_df) ==
    [upload_df EXCEPT !.rows =
        [k \in DOMAIN @ |->
            [raw |-> [c \in DOMAIN @[k].raw |-> cell_str(@[k].raw[c])],
             Update |-> [t \in DOMAIN @[k].Update |-> cell_str(@[k].Update[t])]]]]

\* The upload handler of streamlit_app on a read upload: validate_upload outside
\* any try; on a message st.error; otherwise update_data_editor with four
\* arguments inside try/except Exception; st.session_state['edit_df'] is the
\* object the merge was handed.
streamlit_app_upload(edit_df_, upload_df, update_tags, upload_df_id, unique_ids_) ==
    LET error_message ==
            validate_upload(edit_df_, upload_df, update_tags, upload_df_id)
        merged ==
            call_update_data_editor(<<edit_df_, fillna_astype_str(upload_df), update_tags,
                                      unique_ids_>>)
    IN  IF error_message.raised
        THEN [pc |-> "page raised", edit_df |-> edit_df_, message |-> None]
        ELSE IF error_message.value # None
        THEN [pc |-> "page error", edit_df |-> edit_df_, message |-> error_message.value]
        ELSE IF merged.raised
        THEN [pc |-> "page merge failed", edit_df |-> merged.df, message |-> None]
        ELSE [pc |-> "page merged", edit_df |-> merged.df, message |-> None]

\* The identity fields of the case table, as the page passes them to the merge.
UploadUniqueIds == <<"PatientID", "AccessionNumber">>

\* The page handles the upload.
Upload ==
    /\ up_pc = "ready"
    /\ LET page == streamlit_app_upload(up_edit_df, up_upload_df, up_args.update_tags,
                                        up_args.upload_df_id, UploadUniqueIds)
       IN  /\ up_pc' = page.pc
           /\ up_edit_df' = page.edit_df
           /\ up_message' = page.message
    /\ UNCHANGED <<up_orig, up_upload_df, up_args, up_first,
                   ruleVars, anonVars, runVars, keyVars, consVars,
                   renameVars>>

NextUpload ==
    \/ Validate
    \/ ValidateRaises
    \/ Merge
    \/ MergeAgain
    \/ MergeRaises
    \/ Upload

SpecUpload == InitUpload /\ [][NextUpload]_vars

-----------------------------------------------------------------------------
(* Properties of the upload (SpecUpload) *)

\* The upload has the raw column of the matching field and the Update_ column
\* of every field to update.
ColumnsComplete ==
    /\ up_args.upload_df_id \in up_upload_df.raw_cols
    /\ Range(up_args.update_tags) \subseteq up_upload_df.update_cols

\* The uploaded rows whose matching field has the value of the i-th case row.
Hits(i) ==
    {k \in DOMAIN up_upload_df.rows :
        up_upload_df.rows[k].raw[up_args.upload_df_id] = up_orig[i].tags[up_args.upload_df_id]}

\* C17: update_data_editor returns, and in the table it returns every case
\* row whose matching-field value (of the active matching field) is that of an
\* uploaded row holds the proposed values of such a row in every field to
\* update, while every other case row holds the proposed values it had.
C17_MergeByMatchingField ==
    ColumnsComplete =>
        /\ up_pc # "merge raised"
        /\ up_pc = "merged" =>
                \A i \in DOMAIN up_orig :
                    IF Hits(i) = {} THEN up_edit_df[i].Update = up_orig[i].Update
                    ELSE \E k \in Hits(i) :
                            \A t \in Range(up_args.update_tags) :
                                up_edit_df[i].Update[t] = up_upload_df.rows[k].Update[t]

\* C18: a second update_data_editor call with the same upload leaves the table
\* as the first call left it.
C18_MergeIdempotent ==
    up_pc = "merged again" => up_edit_df = up_first

\* Two uploaded rows for one PatientID with different proposals, merged twice
\* into a case row of that patient.
C18_Witness ==
    /\ up_pc = "merged again"
    /\ up_first # up_orig
    /\ \E k, m \in DOMAIN up_upload_df.rows :
            /\ k # m
            /\ up_upload_df.rows[k].raw["PatientID"] = up_upload_df.rows[m].raw["PatientID"]
            /\ up_upload_df.rows[k].Update # up_upload_df.rows[m].Update
            /\ \E i \in DOMAIN up_orig :
                    up_orig[i].tags["PatientID"] = up_upload_df.rows[k].raw["PatientID"]

\* The matching-field values of the case table that occur in neither column of
\* the upload.
Missing ==
    LET id == up_args.upload_df_id
    IN  {up_orig[i].tags[id] : i \in DOMAIN up_orig}
            \ ({up_upload_df.rows[k].raw[id] : k \in DOMAIN up_upload_df.rows}
               \cup {up_upload_df.rows[k].Update[id] : k \in DOMAIN up_upload_df.rows})

\* C19: the message about unmatched rows lists exactly the matching-field
\* values of the case table found in neither column of the upload, each once,
\* and leaves the case table as it was; a validation without error means that
\* no such value exists.
C19_UnmatchedExact ==
    up_pc = "validated" =>
        /\ up_message.kind = "no matches" =>
                /\ Range(up_message.ids) = Missing
                /\ Len(up_message.ids) = Cardinality(Missing)
                /\ up_edit_df = up_orig
        /\ up_message = None => Missing = {}

\* Two unmatched values in one message.
C19_Witness ==
    /\ up_pc = "validated"
    /\ up_message.kind = "no matches"
    /\ Len(up_message.ids) = 2
    /\ up_edit_df = up_orig

\* The columns of the case table with a blank proposed value.
BlankInCaseTable ==
    SelectSeq(up_args.update_tags,
              LAMBDA t : \E i \in DOMAIN up_orig : up_orig[i].Update[t] = Blank)

\* C20: validate_upload returns the message of the first check that fails, the
\* checks being (1) blank proposed values in the case table, (2) the Update_
\* column of the matching field in the upload, (3) the raw column of the
\* matching field in the upload, (4) unmatched values; None when all pass.
C20_ValidationOrder ==
    /\ up_pc # "validate raised"
    /\ up_pc = "validated" =>
            IF BlankInCaseTable # <<>> THEN up_message = EmptyValues(BlankInCaseTable)
            ELSE IF up_args.upload_df_id \notin up_upload_df.update_cols
                 THEN up_message = MustContain("Update_", up_args.upload_df_id)
            ELSE IF up_args.upload_df_id \notin up_upload_df.raw_cols
                 THEN up_message = MustContain("", up_args.upload_df_id)
            ELSE IF Missing # {} THEN up_message.kind = "no matches"
            ELSE up_message = None

\* C21: validate_upload returns (a message or None) for every uploaded table;
\* it never raises.
C21_ValidationNeverRaises ==
    up_pc \notin {"validate raised", "page raised"}

\* What validate_upload says of the upload against the case table as it was.
ValidationBefore ==
    validate_upload(up_orig, up_upload_df, up_args.update_tags, up_args.upload_df_id)

\* C22: when the reconciliation of an upload does not complete, because
\* validate_upload returned a message or because the merge that followed a
\* validation without error raised, every proposed value of the case table is
\* the one it had before the upload.
C22_FailedUploadKeepsTable ==
    /\ (up_pc = "validated" /\ up_message # None) => up_edit_df = up_orig
    /\ (up_pc = "merge raised" /\ ValidationBefore = Returned_(None)) => up_edit_df = up_orig
    /\ up_pc \in {"page raised", "page error", "page merge failed"} => up_edit_df = up_orig

\* A merge that raised after a validation without error, on an upload with a
\* row for a case of the table.
C22_Witness ==
    /\ up_pc = "merge raised"
    /\ up_message = None
    /\ ValidationBefore = Returned_(None)
    /\ up_orig # <<>>
    /\ up_upload_df.rows # <<>>

\* C26: when validate_upload returns no error for the case table, the upload
\* and the matching field, the update_data_editor call that follows returns and
\* gives every case row the proposed values of an uploaded row.
C26_ValidatedRowsMerged ==
    ValidationBefore = Returned_(None) =>
        /\ up_pc \notin {"merge raised", "page merge failed"}
        /\ up_pc \in {"merged", "page merged"} =>
                \A i \in DOMAIN up_orig :
                    \E k \in DOMAIN up_upload_df.rows :
                        \A t \in Range(up_args.update_tags) :
                            up_edit_df[i].Update[t] = cell_str(up_upload_df.rows[k].Update[t])

\* The upload is the template of the case table, filled in and read back.
IsTemplate ==
    \E fill \in TemplateFills : up_upload_df = read_csv(Template(up_orig, fill))

\* C28: the template, every Update_ cell filled in, uploaded back as it is,
\* passes validate_upload without a message, whichever matching field is
\* active.
C28_TemplateRoundTrip ==
    (IsTemplate /\ up_pc \in {"validated", "validate raised"}) =>
        (up_pc = "validated" /\ up_message = None)

-----------------------------------------------------------------------------
(* SpecConsolidate: one call of consolidate_tags on one row *)

\* The fields a row may propose a value for: those the configuration offers as
\* updatable, and StudyTime of the table of consolidate_tags.
ConsFields == series_update_tag_defaults \cup {"StudyTime"}

\* A cell of an Update_ column: missing, '' or one of two values.
ConsValues == {None, Blank, Ann, John}

\* The rows: any of the Update_ columns, any cell in each.
ConsRows == UNION {{[Update |-> u] : u \in [cols -> ConsValues]} : cols \in SUBSET ConsFields}

InitConsolidate ==
    /\ cons_pc = "ready"
    /\ cons_row \in ConsRows
    /\ cons_tags \in SUBSET ConsFields
    /\ cons_update = None
    /\ RuleIdle
    /\ AnonIdle
    /\ RunIdle
    /\ KeyIdle
    /\ UploadIdle
    /\ RenameIdle

\* consolidate_tags returns the mapping.
ConsolidateReturns ==
    /\ cons_pc = "ready"
    /\ ~consolidate_tags(cons_row, cons_tags).raised
    /\ cons_update' = consolidate_tags(cons_row, cons_tags).update
    /\ cons_pc' = "returned"
    /\ UNCHANGED <<cons_row, cons_tags, ruleVars, anonVars, runVars, keyVars, uploadVars,
                   renameVars>>

\* consolidate_tags raises KeyError.
ConsolidateRaises ==
    /\ cons_pc = "ready"
    /\ consolidate_tags(cons_row, cons_tags).raised
    /\ cons_pc' = "raised"
    /\ UNCHANGED <<cons_row, cons_tags, cons_update, ruleVars, anonVars, runVars, keyVars,
                   uploadVars, renameVars>>

NextConsolidate == ConsolidateReturns \/ ConsolidateRaises

SpecConsolidate == InitConsolidate /\ [][NextConsolidate]_vars

-----------------------------------------------------------------------------
(* Properties of consolidate_tags (SpecConsolidate) *)

\* The updatable fields of the call whose proposed value is neither missing
\* nor ''.
Proposed ==
    {t \in cons_tags : /\ t \in DOMAIN cons_row.Update
                       /\ cons_row.Update[t] \notin {None, Blank}}

\* C23: consolidate_tags returns a mapping whose keys are exactly the numeric
\* tags of the updatable fields with a proposed value that is neither missing
\* nor '', each mapped to that value.
C23_ConsolidatedExactly ==
    /\ cons_pc # "raised"
    /\ cons_pc = "returned" =>
            /\ DOMAIN cons_update.map = {DataDictionary[t] : t \in Proposed}
            /\ \A t \in Proposed : cons_update.map[DataDictionary[t]] = cons_row.Update[t]

\* C29: for the fields the configuration offers as updatable, at patient level
\* and at series level, consolidate_tags with a non-empty proposed value
\* returns, and the mapping has the tag of each such field.
C29_ConfiguredFieldsConsolidate ==
    (cons_tags \subseteq series_update_tag_defaults /\ Proposed # {}) =>
        /\ cons_pc # "raised"
        /\ cons_pc = "returned" =>
                \A t \in Proposed : DataDictionary[t] \in DOMAIN cons_update.map

-----------------------------------------------------------------------------
(* Further properties of remove_info (SpecRule) and of the Run loop (SpecRun) *)

\* The VR codes the caller passed, stripped.
PassedWildcard ==
    IF rule_args.va_type = None THEN {} ELSE {Strip(v) : v \in rule_args.va_type.map}

\* C24: an element whose stripped VR is not in the va_type the caller passed
\* and whose tag is in none of the spare list, the clear list and the update
\* map is after remove_info as it was before; with an empty va_type no element
\* is redacted on account of its VR.
C24_PassedWildcardDecides ==
    (/\ Returned
     /\ rule_args.va_type # None
     /\ Strip(orig_element.VR) \notin PassedWildcard
     /\ ~Spared /\ ~Cleared /\ ~Overridden) => data_element = orig_element

\* C27: in one run every source file is handed to anonymize at most once, and
\* no two calls write the same destination path.
C27_OneWritePerFile ==
    \A i, j \in DOMAIN calls :
        i # j => (calls[i].src # calls[j].src /\ calls[i].dst # calls[j].dst)

-----------------------------------------------------------------------------
(* generate_anonymized_names of dicom_anonymizer_2/anonymizer_rename *)

\* SUFFIXES: '', then a-z, then chr(33)..chr(64), chr(91)..chr(96) and
\* chr(123)..chr(126), each a string of one character.
LowerCase ==
    <<"a", "b", "c", "d", "e", "f", "g", "h", "i", "j", "k", "l", "m", "n", "o", "p", "q",
      "r", "s", "t", "u", "v", "w", "x", "y", "z">>
BeforeUpperCase ==
    <<"!", "\"", "#", "$", "%", "&", "'", "(", ")", "*", "+", ",", "-", ".", "/", "0", "1",
      "2", "3", "4", "5", "6", "7", "8", "9", ":", ";", "<", "=", ">", "?", "@">>
\* chr(96), which a TLA+ string cannot hold.
GraveAccent == "chr(96)"
AfterUpperCase == <<"[", "\\", "]", "^", "_", GraveAccent>>
AfterLowerCase == <<"{", "|", "}", "~">>

SUFFIXES ==
    LET chars == LowerCase \o BeforeUpperCase \o AfterUpperCase \o AfterLowerCase
    IN  <<<<>>>> \o [i \in DOMAIN chars |-> <<chars[i]>>]

\* df[col].fillna('') of one cell.
fillna(v) == IF v = None THEN Blank ELSE v

\* f"{patient_id}": the characters of the id; the key of the group of rows
\* without PatientID is NaN.
format_patient_id(patient_id) ==
    IF patient_id = None THEN <<"n", "a", "n">> ELSE patient_id.s

\* a < b for two strings of digits, character by character.
RECURSIVE str_less(_, _)
str_less(a, b) ==
    IF b = <<>> THEN FALSE
    ELSE IF a = <<>> THEN TRUE
    ELSE IF Head(a) # Head(b) THEN int_(<<Head(a)>>) < int_(<<Head(b)>>)
    ELSE str_less(Tail(a), Tail(b))

\* The order of sort_values(['StudyDate', 'StudyTime']) on two rows.
study_less(r, q) ==
    \/ str_less(fillna(r.StudyDate).s, fillna(q.StudyDate).s)
    \/ /\ fillna(r.StudyDate) = fillna(q.StudyDate)
       /\ str_less(fillna(r.StudyTime).s, fillna(q.StudyTime).s)

\* group.drop_duplicates(subset=['SeriesInstanceUID']): the positions of the
\* first row of every series of the patient.
unique_series(df, patient_id) ==
    {i \in DOMAIN df :
        /\ df[i].PatientID = patient_id
        /\ \A j \in 1..(i - 1) :
                ~(df[j].PatientID = patient_id
                  /\ fillna(df[j].SeriesInstanceUID) = fillna(df[i].SeriesInstanceUID))}

\* sort_values left undone: the series numbered in the order of their first
\* rows.
sorted_position_Unsorted(df, firsts, i) ==
    Cardinality({j \in firsts : j < i})

\* The position of row i among the rows firsts after the sort, which keeps
\* rows of equal date and time in their order.
sorted_position(df, firsts, i) ==
    Cardinality({j \in firsts : \/ study_less(df[j], df[i])
                                \/ (~study_less(df[i], df[j]) /\ j < i)})

\* series_to_suffix[row['SeriesInstanceUID']] for row i.
series_to_suffix(df, i) ==
    LET firsts == unique_series(df, df[i].PatientID)
        first == CHOOSE j \in firsts :
                    fillna(df[j].SeriesInstanceUID) = fillna(df[i].SeriesInstanceUID)
    IN  sorted_position(df, firsts, first)

\* SUFFIXES[series_idx], or f"_scan{series_idx}" past the end of SUFFIXES.
suffix_of(series_idx) ==
    IF series_idx < Len(SUFFIXES) THEN SUFFIXES[series_idx + 1]
    ELSE <<"_", "s", "c", "a", "n">> \o str_int(series_idx)

\* new_name of row i.
new_name(df, i) ==
    LET patient_id == df[i].PatientID
        series_idx == series_to_suffix(df, i)
    IN  IF series_idx = 0 THEN (IF patient_id # None THEN patient_id.s ELSE <<>>)
        ELSE format_patient_id(patient_id) \o suffix_of(series_idx)

\* generate_anonymized_names(df): the column Anonymized_PatientName, in the
\* order of the rows.
generate_anonymized_names(df) == [i \in DOMAIN df |-> new_name(df, i)]

-----------------------------------------------------------------------------
(* SpecRename: one call of generate_anonymized_names *)

\* Most rows of the small metadata tables.
MaxRenameFiles == 3

P1a == Str(<<"P", "1", "a">>)
D1 == Str(<<"1">>)
D2 == Str(<<"2">>)

\* Date and time of a study: both missing, a date without time, the same date
\* with a time, a later date with an earlier time.
RenameStudies ==
    {[StudyDate |-> None, StudyTime |-> None], [StudyDate |-> D1, StudyTime |-> None],
     [StudyDate |-> D1, StudyTime |-> D2], [StudyDate |-> D2, StudyTime |-> D1]}

\* A row: a patient id that is P1, P1 followed by the first suffix character, or
\* missing; a series UID or none.
RenameRows ==
    {[PatientID |-> pid, SeriesInstanceUID |-> uid, StudyDate |-> st.StudyDate,
      StudyTime |-> st.StudyTime] :
        pid \in {P1, P1a, None}, uid \in {S1, None}, st \in RenameStudies}

\* One patient with one file in each of len(SUFFIXES) + 1 series, the n-th
\* dated str(n).
LongTable ==
    [n \in 1..(Len(SUFFIXES) + 1) |->
        [PatientID |-> P1, SeriesInstanceUID |-> Str(<<"S">> \o str_int(n)),
         StudyDate |-> Str(str_int(n)), StudyTime |-> None]]

RenameTables == UNION {[1..n -> RenameRows] : n \in 0..MaxRenameFiles} \cup {LongTable}

InitRename ==
    /\ ren_pc = "ready"
    /\ ren_df \in RenameTables
    /\ ren_names = <<>>
    /\ RuleIdle
    /\ AnonIdle
    /\ RunIdle
    /\ KeyIdle
    /\ UploadIdle
    /\ ConsIdle

GenerateNames ==
    /\ ren_pc = "ready"
    /\ ren_names' = generate_anonymized_names(ren_df)
    /\ ren_pc' = "named"
    /\ UNCHANGED <<ren_df, ruleVars, anonVars, runVars, keyVars, uploadVars, consVars>>

NextRename == GenerateNames

SpecRename == InitRename /\ [][NextRename]_vars

-----------------------------------------------------------------------------
(* Properties of generate_anonymized_names (SpecRename) *)

\* The rows of the patient of row i.
SamePatient(i) == {j \in DOMAIN ren_df : ren_df[j].PatientID = ren_df[i].PatientID}

SameSeries(i, j) ==
    /\ ren_df[i].PatientID = ren_df[j].PatientID
    /\ fillna(ren_df[i].SeriesInstanceUID) = fillna(ren_df[j].SeriesInstanceUID)

\* Every row of a series of the patient of row i has the date and time of the
\* series.
StudyOfSeries(i) ==
    \A j, k \in SamePatient(i) :
        SameSeries(j, k) =>
            /\ fillna(ren_df[j].StudyDate) = fillna(ren_df[k].StudyDate)
            /\ fillna(ren_df[j].StudyTime) = fillna(ren_df[k].StudyTime)

\* The numbers a series of the patient of row i can have.
SeriesNumbers(i) == 0..(Cardinality(SamePatient(i)) - 1)

\* The name of row i is the PatientID followed by the k-th suffix.
NamedBy(i, k) == ren_names[i] = ren_df[i].PatientID.s \o suffix_of(k)

\* The number k for which row i is named PatientID followed by the k-th suffix.
NumberOf(i) == CHOOSE k \in SeriesNumbers(i) : NamedBy(i, k)

\* C25: within one PatientID every row is named PatientID followed by the
\* suffix of the number of its series (the first suffix is ''), the rows of one
\* series have one number, the numbers of the patient's series are 0, 1, ...
\* without gap, and a series with an earlier (StudyDate, StudyTime), missing
\* values first, has the lower number.
C25_ChronologicalNames ==
    ren_pc = "named" =>
        \A i \in DOMAIN ren_df :
            (ren_df[i].PatientID # None /\ StudyOfSeries(i)) =>
                /\ \A j \in SamePatient(i) : \E k \in SeriesNumbers(i) : NamedBy(j, k)
                /\ NumberOf(i) > 0 => \E j \in SamePatient(i) : NumberOf(j) = NumberOf(i) - 1
                /\ \A j \in SamePatient(i) :
                        /\ SameSeries(i, j) <=> NumberOf(i) = NumberOf(j)
                        /\ study_less(ren_df[i], ren_df[j]) => NumberOf(i) < NumberOf(j)

\* A patient with more series than SUFFIXES has entries, the latest of them
\* named with "_scan".
C25_Witness ==
    /\ ren_pc = "named"
    /\ ren_df = LongTable
    /\ \E i \in DOMAIN ren_df :
            /\ NamedBy(i, Len(SUFFIXES))
            /\ \A j \in DOMAIN ren_df : j # i => study_less(ren_df[j], ren_df[i])
    /\ \E i, j \in DOMAIN ren_df : i < j /\ study_less(ren_df[j], ren_df[i])

\* C30: two rows have the same Anonymized_PatientName only if they have the
\* same PatientID and the same SeriesInstanceUID.
C30_NamesDoNotCollide ==
    ren_pc = "named" =>
        \A i, j \in DOMAIN ren_df :
            ren_names[i] = ren_names[j] =>
                /\ ren_df[i].PatientID = ren_df[j].PatientID
                /\ ren_df[i].SeriesInstanceUID = ren_df[j].SeriesInstanceUID

====
